---- MODULE Spec2Model ----
(***************************************************************************)
(* State-machine model of the page of src/src/hooks/useSoundEffects.ts:    *)
(* the Home component (selected category, gallery index, the effect that   *)
(* follows a change of selectedCategory, the gallery modal), the Scene     *)
(* component (the shared hovered title), the PhotoFrame pointer handlers,  *)
(* Home's scroll, resize and menu handlers, and the four sound operations  *)
(* of useSoundEffects with the oscillators and timers they leave behind.   *)
(*                                                                         *)
(* React's scheduling is modelled as follows: an event handler's state     *)
(* updates are committed (rendered) at the end of the handler; an effect   *)
(* whose dependency changed in that commit runs after the commit and       *)
(* before the next event is handled.  A state with effectPending = TRUE is *)
(* the committed render that the effect has not yet followed.              *)
(***************************************************************************)
EXTENDS Integers, Sequences, FiniteSets

VARIABLES
    selectedCategory,     \* Home: useState<string | null>(null)
    currentGalleryIndex,  \* Home: useState(0)
    show3DScene,          \* Home: useState(true)
    effectPending,        \* the selectedCategory effect is scheduled for the last commit
    threw,                \* the last handler raised an error
    soundCalls,           \* sound operations called by the last event and its effect
    last,                 \* history: the last event and the state it started from
    trail,                \* history: the run of nextImage/prevImage calls just made
    hovered,              \* Scene: useState<string | null>(null)
    pointerOver,          \* the frame (index of photos) under the pointer, 0 for none
    pending,              \* pointer events dispatched and not yet handled
    isMobile,             \* Home: useState(false)
    activeSection,        \* Home: useState('hero')
    showStats,            \* Home: useState(false); the mobile menu is rendered iff showStats
    innerWidth,           \* window.innerWidth
    scrollY,              \* window.scrollY
    layout,               \* offsetHeight of the four sections, as laid out
    phase,                \* "rendered": first render committed, mount effects not yet run;
                          \* "mounted"; "detached": Home removed from the document, the
                          \* effects' cleanups not yet run; "unmounted": cleanups run
    listeners,            \* the window's event listeners: event type and handler function
    before,               \* history: the view state the last handled event started from
    failedSounds,         \* the sound operations of soundCalls that failed inside
    oscillators,          \* the oscillators started, in the order of their start
    timers,               \* the setTimeout callbacks scheduled, pending or fired
    lastCall,             \* history: the last call of a sound operation, as its caller saw it
    lastTimer,            \* history: the last timer callback run
    instance,             \* the number of the Home instance rendered, counting from 1
    updates               \* the updaters queued for currentGalleryIndex, not yet rendered

vars == <<selectedCategory, currentGalleryIndex, show3DScene, effectPending, threw,
          soundCalls, last, trail, hovered, pointerOver, pending,
          isMobile, activeSection, showStats, innerWidth, scrollY, layout, phase,
          listeners, before, failedSounds, oscillators, timers, lastCall, lastTimer,
          instance, updates>>

pageVars == <<selectedCategory, currentGalleryIndex, effectPending, threw, last, trail>>
hoverVars == <<hovered, pointerOver, pending>>
viewVars == <<isMobile, activeSection, showStats, innerWidth, scrollY, layout, phase,
              listeners, before>>
audioVars == <<oscillators, timers, lastCall, lastTimer>>
renderVars == <<instance, updates>>

\* JavaScript null
Null == "null"

\* Length of the history of navigation calls kept in trail
MaxTrail == 5
\* Number of pointer events that may be in flight
MaxPending == 3
\* Number of oscillators started
MaxOscillators == 2
\* Number of times Home is mounted
MaxMounts == 2
\* Number of updaters queued before a render
MaxBatch == 3

(***************************************************************************)
(* Static data                                                             *)
(***************************************************************************)

\* galleryData: category name -> record; only the images matter here
galleryData ==
    [c \in {"Landscapes", "Portraits", "Street", "Nature", "Architecture"} |->
        [images |->
            CASE c = "Landscapes"   -> <<"/placeholder-1.jpg", "/placeholder-2.jpg", "/placeholder-3.jpg", "/placeholder-4.jpg", "/placeholder-5.jpg">>
              [] c = "Portraits"    -> <<"/placeholder-2.jpg", "/placeholder-1.jpg", "/placeholder-4.jpg", "/placeholder-3.jpg", "/placeholder-5.jpg">>
              [] c = "Street"       -> <<"/placeholder-3.jpg", "/placeholder-1.jpg", "/placeholder-2.jpg", "/placeholder-5.jpg", "/placeholder-4.jpg">>
              [] c = "Nature"       -> <<"/placeholder-4.jpg", "/placeholder-2.jpg", "/placeholder-1.jpg", "/placeholder-3.jpg", "/placeholder-5.jpg">>
              [] c = "Architecture" -> <<"/placeholder-5.jpg", "/placeholder-1.jpg", "/placeholder-3.jpg", "/placeholder-2.jpg", "/placeholder-4.jpg">>]]

\* Object.entries(galleryData): the categories of the gallery cards
galleryCards == DOMAIN galleryData

\* A frame list in which one title is not a key of galleryData
photos_typo == <<"Landscape", "Portraits", "Street", "Nature", "Architecture">>

\* A frame list in which one title occurs twice
photos_dup == <<"Landscapes", "Portraits", "Street", "Nature", "Nature">>

\* Scene.photos: the titles of the five frames, in order
photos == <<"Landscapes", "Portraits", "Street", "Nature", "Architecture">>

(***************************************************************************)
(* JavaScript helpers                                                      *)
(***************************************************************************)

\* a % n of JavaScript for n > 0: the result has the sign of a
JsRem(a, n) == IF a >= 0 THEN a % n ELSE -((-a) % n)

\* truthiness of a string | null
Truthy(s) == s # Null /\ s # ""

\* selectedCategory ? galleryData[selectedCategory] : null  (present = FALSE for
\* null and for undefined, which are both falsy)
CategoryData(cat) ==
    IF Truthy(cat) /\ cat \in DOMAIN galleryData
        THEN [present |-> TRUE, images |-> galleryData[cat].images]
        ELSE [present |-> FALSE, images |-> <<>>]

selectedCategoryData == CategoryData(selectedCategory)

\* currentGalleryIndex counts from 0, sequences from 1
currentImage ==
    IF selectedCategoryData.present
          /\ currentGalleryIndex + 1 \in DOMAIN selectedCategoryData.images
        THEN selectedCategoryData.images[currentGalleryIndex + 1]
        ELSE "undefined"

\* {selectedCategory && selectedCategoryData && (<Dialog open={!!selectedCategory} ...>)}
ModalVisible ==
    Truthy(selectedCategory) /\ selectedCategoryData.present /\ Truthy(selectedCategory)

(***************************************************************************)
(* useSoundEffects: the four sound operations                              *)
(*                                                                         *)
(* A sound operation is a try block of steps and a catch that logs.  It is *)
(* modelled by the step at which an error is raised, if any.  The platform *)
(* can fail every step up to start (no AudioContext, no node, a rejected   *)
(* parameter); stop() of an oscillator that has just been started on a     *)
(* live context raises nothing, and neither does setTimeout.               *)
(***************************************************************************)

SoundKinds == {"hover", "click", "success", "ambient"}

\* the steps of the try block, in order
SoundSteps(kind) ==
    IF kind = "ambient"
        THEN <<"construct", "createOscillator", "createGain", "createBiquadFilter",
               "connect", "schedule", "start", "setTimeout">>
        ELSE <<"construct", "createOscillator", "createGain", "connect", "schedule",
               "start", "stop">>

StepIndex(kind, step) ==
    CHOOSE j \in DOMAIN SoundSteps(kind) : SoundSteps(kind)[j] = step

\* step was reached and raised nothing, when failAt is the step that raises
Completed(kind, failAt, step) ==
    /\ \E j \in DOMAIN SoundSteps(kind) : SoundSteps(kind)[j] = step
    /\ failAt = "none" \/ StepIndex(kind, failAt) > StepIndex(kind, step)

\* every step of the try block, and no failure
AnyFailure(kind) ==
    {"none"} \cup {SoundSteps(kind)[j] : j \in DOMAIN SoundSteps(kind)}

\* the failures the platform produces
PlatformFailures(kind) ==
    {"none"} \cup {SoundSteps(kind)[j] : j \in 1..StepIndex(kind, "start")}

\* A success sound whose stop is not scheduled
StopDelay_SuccessNeverStops(kind) ==
    CASE kind = "hover" -> 100
      [] kind = "click" -> 50
      [] OTHER -> 0

\* oscillator.stop(audioContext.currentTime + 0.1 | 0.05 | 0.3), in ms after the
\* start; the ambient sound has no scheduled stop
StopDelay(kind) ==
    CASE kind = "hover" -> 100
      [] kind = "click" -> 50
      [] kind = "success" -> 300
      [] OTHER -> 0

\* setTimeout(..., 2000) of playAmbientSound
AmbientTimeout == 2000

\* A sound operation without its try / catch
RunSound_NoCatch(kind, failAt) ==
    [threw |-> failAt # "none", notice |-> FALSE,
     started |-> Completed(kind, failAt, "start"),
     stopAfter |-> IF Completed(kind, failAt, "stop") THEN StopDelay(kind) ELSE 0,
     timer |-> IF Completed(kind, failAt, "setTimeout") THEN AmbientTimeout ELSE 0]

\* playHoverSound, playClickSound, playSuccessSound, playAmbientSound when
\* step failAt raises: what the caller sees (threw), the console notice of the
\* catch, and what was done before the error
RunSound(kind, failAt) ==
    [threw |-> FALSE, notice |-> failAt # "none",
     started |-> Completed(kind, failAt, "start"),
     stopAfter |-> IF Completed(kind, failAt, "stop") THEN StopDelay(kind) ELSE 0,
     timer |-> IF Completed(kind, failAt, "setTimeout") THEN AmbientTimeout ELSE 0]

\* A timer callback without its try / catch
TimerCallback_NoCatch(state, raises) ==
    [state |-> IF state = "running" THEN "stopped" ELSE state,
     stopError |-> state # "running" /\ raises,
     threw |-> state # "running" /\ raises]

\* the timer callback: try { oscillator.stop() } catch (e) { }.  stop() of a
\* running oscillator stops it; of another one it may raise (raises)
TimerCallback(state, raises) ==
    [state |-> IF state = "running" THEN "stopped" ELSE state,
     stopError |-> state # "running" /\ raises,
     threw |-> FALSE]

\* what a call of each operation may do, over the failures of the platform
SoundOutcomes ==
    [kind \in SoundKinds |->
        {[failed |-> failAt # "none", result |-> RunSound(kind, failAt)] :
            failAt \in PlatformFailures(kind)}]

\* the ways the calls of the sound operations `calls` may go: an outcome for each
RECURSIVE OutcomeChoices(_)
OutcomeChoices(calls) ==
    IF calls = <<>>
        THEN {<<>>}
        ELSE {<<o>> \o rest : o \in SoundOutcomes[Head(calls)],
                              rest \in OutcomeChoices(Tail(calls))}

\* the operations of `calls` that failed
Failed(calls, os) ==
    {calls[j] : j \in {k \in DOMAIN calls : os[k].failed}}

\* an error of one of `calls` reached the caller
Escaped(calls, os) ==
    \E j \in DOMAIN calls : os[j].result.threw

\* an event handler that raises nothing itself calls the sound operations
\* `calls` in turn, each failing or not on its own
PlaySounds(calls) ==
    \E os \in OutcomeChoices(calls) :
        /\ soundCalls' = calls
        /\ failedSounds' = Failed(calls, os)
        /\ threw' = Escaped(calls, os)

\* an effect that follows the handler calls the sound operations `calls`
PlayMoreSounds(calls) ==
    \E os \in OutcomeChoices(calls) :
        /\ soundCalls' = soundCalls \o calls
        /\ failedSounds' = failedSounds \cup Failed(calls, os)
        /\ threw' = (threw \/ Escaped(calls, os))

(***************************************************************************)
(* The pieces of the handlers                                              *)
(***************************************************************************)

\* An effect without a dependency list runs after every commit
DepsChanged_Always(old, new) == TRUE

\* useEffect(..., [selectedCategory, playSuccessSound]): playSuccessSound is a
\* useCallback with no dependencies, so only selectedCategory can change
DepsChanged(old, new) == old # new

\* An effect that plays the sound and forgets the reset
EffectIndex_NoReset(cat, idx) == idx

\* the index after the effect: if (selectedCategory) setCurrentGalleryIndex(0)
EffectIndex(cat, idx) == IF Truthy(cat) THEN 0 ELSE idx

\* the sound calls after the effect: if (selectedCategory) playSuccessSound()
EffectSounds(cat, calls) == IF Truthy(cat) THEN Append(calls, "success") ELSE calls

\* A navigation handler without the guard
NavGuard_Missing(data) == TRUE

\* if (selectedCategoryData)
NavGuard(data) == data.present

\* An updater that steps past the last image
NextIndex_NoWrap(prev, n) == prev + 1

\* (prev) => (prev + 1) % selectedCategoryData.images.length
NextIndex(prev, n) == JsRem(prev + 1, n)

\* An updater that forgets to add the length before the remainder
PrevIndex_NoAdd(prev, n) == JsRem(prev - 1, n)

\* (prev) => (prev - 1 + selectedCategoryData.images.length) % selectedCategoryData.images.length
PrevIndex(prev, n) == JsRem(prev - 1 + n, n)

\* trail with one more call, keeping the last MaxTrail
Push(t, e) ==
    LET u == Append(t, e)
    IN IF Len(u) > MaxTrail THEN SubSeq(u, 2, Len(u)) ELSE u

Started(op) ==
    [op |-> op, cat |-> selectedCategory, idx |-> currentGalleryIndex,
     arg |-> Null, pos |-> 0]

\* the same for an event that carries a title or a category (arg)
StartedWith(op, arg) == [Started(op) EXCEPT !.arg = arg]

\* the same for an event that carries an index (pos)
StartedAt(op, pos) == [Started(op) EXCEPT !.pos = pos]

(***************************************************************************)
(* The window and the document                                             *)
(***************************************************************************)

\* window.innerWidth < 768
MobileBreakpoint == 768

\* scrollPosition > 100
SceneScrollLimit == 100

\* the widths the window takes: around the breakpoint
Widths == {MobileBreakpoint - 1, MobileBreakpoint, MobileBreakpoint + 1}

\* the section heights the page is laid out with; in the second the hero
\* section is shorter than the scroll limit of the 3D scene
Layouts ==
    { [hero |-> 120, gallery |-> 60, about |-> 40, contact |-> 50],
      [hero |-> 80, gallery |-> 80, about |-> 30, contact |-> 50] }

\* the cumulative heights the scroll handler compares with
Cumulative(l) == {l.hero, l.hero + l.gallery, l.hero + l.gallery + l.about}

\* the scroll offsets tried: around the scene limit and around each boundary
ScrollOffsets(l) ==
    {0, SceneScrollLimit \div 2, SceneScrollLimit, SceneScrollLimit + 1,
     SceneScrollLimit + SceneScrollLimit \div 2}
        \cup UNION {{c - 1, c, c + 1} : c \in Cumulative(l)}

\* A page whose hero section has lost its id
SectionIds_NoHero == {"gallery", "about", "contact"}

\* <section id="hero">, "gallery", "about", "contact": rendered unconditionally
SectionIds == {"hero", "gallery", "about", "contact"}

\* document.getElementById(id): the sections are in the document from the
\* first commit until the commit that removes Home
getElementById(id) ==
    IF phase \in {"rendered", "mounted"} /\ id \in SectionIds
        THEN [present |-> TRUE, offsetHeight |-> layout[id]]
        ELSE [present |-> FALSE, offsetHeight |-> 0]

\* A cleanup that passes removeEventListener a function other than the one added
CleanupListeners_OtherFunction(n) ==
    {[type |-> "resize", handler |-> <<"checkMobile", 0>>],
     [type |-> "scroll", handler |-> <<"handleScroll", 0>>]}

\* the listeners the cleanups of instance n remove: removeEventListener('resize',
\* checkMobile) and ('scroll', handleScroll), with the functions of its own effects
CleanupListeners(n) ==
    {[type |-> "resize", handler |-> <<"checkMobile", n>>],
     [type |-> "scroll", handler |-> <<"handleScroll", n>>]}

\* the listeners the mount effects of instance n add: addEventListener('resize',
\* checkMobile) and ('scroll', handleScroll); each effect run makes its function anew
MountListeners(n) ==
    {[type |-> "resize", handler |-> <<"checkMobile", n>>],
     [type |-> "scroll", handler |-> <<"handleScroll", n>>]}

\* the listeners of the window for events of `type`
ListenersFor(type) == {l \in listeners : l.type = type}

\* A page that starts with the 3D scene hidden
InitialState_SceneHidden ==
    [selectedCategory |-> Null, currentGalleryIndex |-> 0, isMobile |-> FALSE,
     activeSection |-> "hero", show3DScene |-> FALSE, showStats |-> FALSE]

\* the useState initial values of Home
InitialState ==
    [selectedCategory |-> Null, currentGalleryIndex |-> 0, isMobile |-> FALSE,
     activeSection |-> "hero", show3DScene |-> TRUE, showStats |-> FALSE]

\* the view state an event starts from
View ==
    [scrollY |-> scrollY, show3DScene |-> show3DScene, activeSection |-> activeSection,
     isMobile |-> isMobile, showStats |-> showStats]

(***************************************************************************)
(* Initial state: Home and Scene rendered for the first time with the      *)
(* useState initial values, in a window of some width, laid out somehow,   *)
(* not scrolled; the mount effects have not run yet.                       *)
(***************************************************************************)
Init ==
    /\ selectedCategory = InitialState.selectedCategory
    /\ currentGalleryIndex = InitialState.currentGalleryIndex
    /\ show3DScene = InitialState.show3DScene
    /\ isMobile = InitialState.isMobile
    /\ activeSection = InitialState.activeSection
    /\ showStats = InitialState.showStats
    /\ innerWidth \in Widths
    /\ layout \in Layouts
    /\ scrollY = 0
    /\ phase = "rendered"
    /\ listeners = {}
    /\ instance = 1
    /\ updates = <<>>
    /\ before = View
    /\ failedSounds = {}
    /\ oscillators = <<>>
    /\ timers = <<>>
    /\ lastCall = [kind |-> "none", failed |-> FALSE, threw |-> FALSE, notice |-> FALSE,
                   started |-> FALSE, afterFailure |-> FALSE]
    /\ lastTimer = [osc |-> 0, stopError |-> FALSE, threw |-> FALSE]
    /\ effectPending = FALSE
    /\ threw = FALSE
    /\ soundCalls = <<>>
    /\ last = [op |-> "init", cat |-> Null, idx |-> 0, arg |-> Null, pos |-> 0]
    /\ trail = <<>>
    /\ hovered = Null
    /\ pointerOver = 0
    /\ pending = <<>>

(***************************************************************************)
(* Home: selection, the effect, the modal                                  *)
(***************************************************************************)

\* setSelectedCategory(category) from a handler, then the commit
Select(op, category) ==
    /\ phase = "mounted"
    /\ ~effectPending
    /\ selectedCategory' = category
    /\ effectPending' = DepsChanged(selectedCategory, category)
    /\ PlaySounds(<<"click">>)
    /\ last' = StartedWith(op, category)
    /\ trail' = <<>>
    /\ UNCHANGED <<currentGalleryIndex, show3DScene, hoverVars, viewVars, audioVars, renderVars>>

\* PhotoFrame.handleClick: onClick() (= setSelectedCategory(photo.title)), playClickSound()
\* The frames are rendered while show3DScene holds.
SelectFrame(i) ==
    /\ show3DScene
    /\ Select("selectFrame", photos[i])

\* gallery card onClick: setSelectedCategory(category), playClickSound()
SelectCard(category) == Select("selectCard", category)

\* useEffect(() => { if (selectedCategory) { setCurrentGalleryIndex(0); playSuccessSound() } })
SelectedCategoryEffect ==
    /\ effectPending
    /\ currentGalleryIndex' = EffectIndex(selectedCategory, currentGalleryIndex)
    /\ PlayMoreSounds(EffectSounds(selectedCategory, <<>>))
    /\ effectPending' = DepsChanged(selectedCategory, selectedCategory)
    /\ UNCHANGED <<selectedCategory, show3DScene, last, trail, hoverVars, viewVars, audioVars, renderVars>>

\* Dialog onOpenChange: setSelectedCategory(null)
CloseModal ==
    /\ phase = "mounted"
    /\ ~effectPending
    /\ ModalVisible
    /\ selectedCategory' = Null
    /\ effectPending' = DepsChanged(selectedCategory, Null)
    /\ PlaySounds(<<>>)
    /\ last' = Started("close")
    /\ trail' = <<>>
    /\ UNCHANGED <<currentGalleryIndex, show3DScene, hoverVars, viewVars, audioVars, renderVars>>

\* nextImage and prevImage, which differ in the updater only.  The functions are
\* modelled as callable in every state; their buttons exist while the modal is
\* visible.  Reading images.length of a missing record raises a TypeError.
Navigate(op, data, newIndex) ==
    /\ phase = "mounted"
    /\ ~effectPending
    /\ IF NavGuard(data)
         THEN IF data.present
                THEN /\ currentGalleryIndex' = newIndex
                     /\ PlaySounds(<<"click">>)
                ELSE /\ threw' = TRUE
                     /\ soundCalls' = <<>>
                     /\ failedSounds' = {}
                     /\ UNCHANGED currentGalleryIndex
         ELSE /\ PlaySounds(<<>>)
              /\ UNCHANGED currentGalleryIndex
    /\ effectPending' = DepsChanged(selectedCategory, selectedCategory)
    /\ last' = Started(op)
    /\ trail' = IF data.present
                  THEN Push(trail, [op |-> op, from |-> currentGalleryIndex])
                  ELSE <<>>
    /\ UNCHANGED <<selectedCategory, show3DScene, hoverVars, viewVars, audioVars, renderVars>>

nextImage ==
    Navigate("next", selectedCategoryData,
             NextIndex(currentGalleryIndex, Len(selectedCategoryData.images)))

prevImage ==
    Navigate("prev", selectedCategoryData,
             PrevIndex(currentGalleryIndex, Len(selectedCategoryData.images)))

\* An updater that computes from the index of the render that made the handler
ApplyUpdate_Captured(prev, u) ==
    IF u.op = "next" THEN NextIndex(u.seen, u.n) ELSE PrevIndex(u.seen, u.n)

\* the queued updater u, (prev) => ..., applied to the latest index prev; the
\* length n is the one of the render that made the handler
ApplyUpdate(prev, u) ==
    IF u.op = "next" THEN NextIndex(prev, u.n) ELSE PrevIndex(prev, u.n)

\* the queue of updaters applied in the order of the calls
RECURSIVE ApplyUpdates(_, _)
ApplyUpdates(prev, us) ==
    IF us = <<>> THEN prev ELSE ApplyUpdates(ApplyUpdate(prev, Head(us)), Tail(us))

\* nextImage or prevImage is called while the updates of earlier calls are still
\* queued: the handler is the one of the last render, its updater joins the queue
DispatchNavigate(op) ==
    /\ phase = "mounted"
    /\ ~effectPending
    /\ Len(updates) < MaxBatch
    /\ NavGuard(selectedCategoryData)
    /\ selectedCategoryData.present
    /\ updates' = Append(updates, [op |-> op, n |-> Len(selectedCategoryData.images),
                                   seen |-> currentGalleryIndex])
    /\ PlaySounds(<<"click">>)
    /\ last' = Started(op)
    /\ trail' = <<>>
    /\ UNCHANGED <<selectedCategory, currentGalleryIndex, show3DScene, effectPending,
                   hoverVars, viewVars, audioVars, instance>>

\* the render that follows: the queued updaters are applied and committed
RenderUpdates ==
    /\ phase = "mounted"
    /\ updates # <<>>
    /\ currentGalleryIndex' = ApplyUpdates(currentGalleryIndex, updates)
    /\ updates' = <<>>
    /\ effectPending' = DepsChanged(selectedCategory, selectedCategory)
    /\ last' = StartedAt("render", Len(updates))
    /\ trail' = [j \in DOMAIN updates |->
                    [op |-> updates[j].op, from |-> currentGalleryIndex]]
    /\ UNCHANGED <<selectedCategory, show3DScene, threw, soundCalls, failedSounds,
                   hoverVars, viewVars, audioVars, instance>>

\* thumbnail onClick: setCurrentGalleryIndex(index), playClickSound(); one
\* thumbnail per image of the selected category, rendered in the modal
ThumbnailClick(index) ==
    /\ phase = "mounted"
    /\ ~effectPending
    /\ ModalVisible
    /\ index + 1 \in DOMAIN selectedCategoryData.images
    /\ currentGalleryIndex' = index
    /\ PlaySounds(<<"click">>)
    /\ effectPending' = DepsChanged(selectedCategory, selectedCategory)
    /\ last' = StartedAt("thumbnail", index)
    /\ trail' = <<>>
    /\ UNCHANGED <<selectedCategory, show3DScene, hoverVars, viewVars, audioVars, renderVars>>

\* A threshold test that hides the scene at the limit itself
Show3D_Exclusive(s) == ~(s >= SceneScrollLimit)

\* if (scrollPosition > 100) setShow3DScene(false) else setShow3DScene(true)
Show3D(s) == ~(s > SceneScrollLimit)

\* A chain that compares with each section's own height, not the cumulative one
SectionAt_NotCumulative(s, hero, gallery, about, contact) ==
    IF hero.present /\ s < hero.offsetHeight
        THEN [set |-> TRUE, section |-> "hero", threw |-> FALSE]
    ELSE IF gallery.present /\ s < gallery.offsetHeight
        THEN [set |-> TRUE, section |-> "gallery", threw |-> FALSE]
    ELSE IF about.present /\ s < about.offsetHeight
        THEN [set |-> TRUE, section |-> "about", threw |-> FALSE]
    ELSE IF contact.present
        THEN [set |-> TRUE, section |-> "contact", threw |-> FALSE]
    ELSE [set |-> FALSE, section |-> "", threw |-> FALSE]

\* the if / else-if chain of handleScroll.  heroSection! and gallerySection!
\* are read without a test: reading offsetHeight of null raises a TypeError,
\* and then no setActiveSection is reached.
SectionAt(s, hero, gallery, about, contact) ==
    IF hero.present /\ s < hero.offsetHeight
        THEN [set |-> TRUE, section |-> "hero", threw |-> FALSE]
    ELSE IF gallery.present /\ ~hero.present
        THEN [set |-> FALSE, section |-> "", threw |-> TRUE]
    ELSE IF gallery.present /\ s < gallery.offsetHeight + hero.offsetHeight
        THEN [set |-> TRUE, section |-> "gallery", threw |-> FALSE]
    ELSE IF about.present /\ (~gallery.present \/ ~hero.present)
        THEN [set |-> FALSE, section |-> "", threw |-> TRUE]
    ELSE IF about.present
              /\ s < about.offsetHeight + gallery.offsetHeight + hero.offsetHeight
        THEN [set |-> TRUE, section |-> "about", threw |-> FALSE]
    ELSE IF contact.present
        THEN [set |-> TRUE, section |-> "contact", threw |-> FALSE]
    ELSE [set |-> FALSE, section |-> "", threw |-> FALSE]

\* A breakpoint test that counts the breakpoint itself as mobile
checkMobile_Inclusive(w) == w <= MobileBreakpoint

\* checkMobile: setIsMobile(window.innerWidth < 768), for the width w of the window
checkMobile(w) == w < MobileBreakpoint

\* A scroll effect that calls handleScroll once when it registers it
ScrollEffectAtMount_CallsHandler(current, computed) == computed

\* the scroll effect registers handleScroll and does not call it (checkMobile is
\* called by its effect): show3DScene and activeSection keep their value
\* (current), whatever handleScroll would compute (computed)
ScrollEffectAtMount(current, computed) == current

\* The effects of the first commit, run in the order of their declaration:
\* checkMobile() and the resize listener; the selectedCategory effect; the
\* scroll listener.
MountEffects ==
    /\ phase = "rendered"
    /\ phase' = "mounted"
    /\ isMobile' = checkMobile(innerWidth)
    /\ currentGalleryIndex' = EffectIndex(selectedCategory, currentGalleryIndex)
    /\ PlayMoreSounds(EffectSounds(selectedCategory, <<>>))
    /\ listeners' = listeners \cup MountListeners(instance)
    /\ effectPending' = FALSE
    /\ LET r == SectionAt(scrollY, getElementById("hero"), getElementById("gallery"),
                          getElementById("about"), getElementById("contact"))
       IN /\ show3DScene' = ScrollEffectAtMount(show3DScene, Show3D(scrollY))
          /\ activeSection' =
                ScrollEffectAtMount(activeSection,
                                    IF r.set THEN r.section ELSE activeSection)
    /\ UNCHANGED <<selectedCategory, last, trail, hoverVars, showStats, innerWidth,
                   scrollY, layout, before, audioVars, renderVars>>

Next ==
    \/ MountEffects
    \/ \E i \in DOMAIN photos : SelectFrame(i)
    \/ \E c \in galleryCards : SelectCard(c)
    \/ SelectedCategoryEffect
    \/ CloseModal
    \/ nextImage
    \/ prevImage
    \/ \E index \in 0..(Len(selectedCategoryData.images) - 1) : ThumbnailClick(index)

Spec == Init /\ [][Next]_vars

\* Home with navigation calls that are handled back to back, before the render
NextBatch ==
    \/ MountEffects
    \/ \E c \in galleryCards : updates = <<>> /\ SelectCard(c)
    \/ SelectedCategoryEffect
    \/ updates = <<>> /\ CloseModal
    \/ \E op \in {"next", "prev"} : DispatchNavigate(op)
    \/ RenderUpdates

SpecBatch == Init /\ [][NextBatch]_vars

(***************************************************************************)
(* Scene and PhotoFrame: the shared hovered title                          *)
(*                                                                         *)
(* A pointer movement dispatches a pointer-out for the frame it leaves and *)
(* a pointer-over for the frame it enters; the handlers run when the       *)
(* events are delivered.  The order in which the two events of one         *)
(* movement are delivered is not fixed by the handlers.                    *)
(***************************************************************************)

\* A frame that lights up whenever any title is hovered
Highlighted_AnyHover(i) == hovered # Null

\* hovered === title, for the frame photos[i]
Highlighted(i) == hovered = photos[i]

\* the events of a movement from frame a to frame b (0: no frame), in the
\* orders they may be delivered
MoveEvents(a, b) ==
    LET out  == [type |-> "out", title |-> photos[a]]
        over == [type |-> "over", title |-> photos[b]]
    IN IF a = 0 THEN {<<over>>}
       ELSE IF b = 0 THEN {<<out>>}
       ELSE {<<out, over>>, <<over, out>>}

\* the pointer moves from where it is to frame `to`, or off the frames (0)
PointerMove(to) ==
    /\ phase = "mounted"
    /\ show3DScene
    /\ to # pointerOver
    /\ Len(pending) + 2 <= MaxPending
    /\ pointerOver' = to
    /\ \E evs \in MoveEvents(pointerOver, to) : pending' = pending \o evs
    /\ UNCHANGED <<hovered, soundCalls, failedSounds, show3DScene, pageVars, viewVars,
                   audioVars, renderVars>>

\* PhotoFrame.handlePointerOver: setHovered(title), playHoverSound()
handlePointerOver(title) ==
    /\ hovered' = title
    /\ PlaySounds(<<"hover">>)
    /\ last' = StartedWith("pointerOver", title)

\* onPointerOut={() => setHovered(null)}
handlePointerOut ==
    /\ hovered' = Null
    /\ PlaySounds(<<>>)
    /\ last' = Started("pointerOut")

\* the oldest pending pointer event is delivered to its frame
DeliverPointerEvent ==
    /\ pending # <<>>
    /\ IF Head(pending).type = "over"
         THEN handlePointerOver(Head(pending).title)
         ELSE handlePointerOut
    /\ ~effectPending
    /\ pending' = Tail(pending)
    /\ UNCHANGED <<pointerOver, show3DScene, selectedCategory, currentGalleryIndex,
                   effectPending, trail, viewVars, audioVars, renderVars>>

NextHover ==
    \/ MountEffects
    \/ \E to \in 0..Len(photos) : PointerMove(to)
    \/ DeliverPointerEvent

SpecHover == Init /\ [][NextHover]_vars

(***************************************************************************)
(* Home: scroll, resize, the menu, unmount                                 *)
(*                                                                         *)
(* The window scrolls and is resized whether or not Home listens; a        *)
(* handler runs for an event iff it is registered when the event occurs.   *)
(***************************************************************************)

\* handleScroll, for window.scrollY = s.  The state setters of a component
\* that has been removed do nothing.
handleScroll(s) ==
    LET r == SectionAt(s, getElementById("hero"), getElementById("gallery"),
                       getElementById("about"), getElementById("contact"))
        alive == phase = "mounted"
    IN /\ show3DScene' = IF alive THEN Show3D(s) ELSE show3DScene
       /\ activeSection' = IF alive /\ r.set THEN r.section ELSE activeSection
       /\ threw' = r.threw
       /\ soundCalls' = <<>>
       /\ failedSounds' = {}
       /\ effectPending' = DepsChanged(selectedCategory, selectedCategory)
       /\ last' = Started(IF alive THEN "scroll" ELSE "scrollDetached")
       /\ before' = View
       /\ trail' = <<>>

\* the window is scrolled to offset s and the scroll event is dispatched
Scroll(s) ==
    /\ ~effectPending
    /\ s # scrollY
    /\ scrollY' = s
    /\ IF ListenersFor("scroll") # {}
         THEN handleScroll(s)
         ELSE UNCHANGED <<show3DScene, activeSection, threw, soundCalls, failedSounds,
                          effectPending, last, before, trail>>
    /\ UNCHANGED <<selectedCategory, currentGalleryIndex, hoverVars, isMobile, showStats,
                   innerWidth, layout, phase, listeners, audioVars, renderVars>>

\* the window is resized to width w, the page is laid out as l and the resize
\* event is dispatched; checkMobile reads the new width
Resize(w, l) ==
    /\ ~effectPending
    /\ w # innerWidth
    /\ innerWidth' = w
    /\ layout' = l
    /\ IF ListenersFor("resize") # {}
         THEN /\ isMobile' = IF phase = "mounted" THEN checkMobile(w) ELSE isMobile
              /\ PlaySounds(<<>>)
              /\ effectPending' = DepsChanged(selectedCategory, selectedCategory)
              /\ last' = Started(IF phase = "mounted" THEN "resize" ELSE "resizeDetached")
              /\ before' = View
              /\ trail' = <<>>
         ELSE UNCHANGED <<isMobile, threw, soundCalls, failedSounds, effectPending, last,
                          before, trail>>
    /\ UNCHANGED <<selectedCategory, currentGalleryIndex, show3DScene, hoverVars,
                   activeSection, showStats, scrollY, phase, listeners, audioVars, renderVars>>

\* an event of Home that writes showStats at most; sounds are the sound
\* operations it calls
MenuEvent(op, stats, sounds) ==
    /\ phase = "mounted"
    /\ ~effectPending
    /\ showStats' = stats
    /\ PlaySounds(sounds)
    /\ effectPending' = DepsChanged(selectedCategory, selectedCategory)
    /\ last' = Started(op)
    /\ before' = View
    /\ trail' = <<>>
    /\ UNCHANGED <<selectedCategory, currentGalleryIndex, show3DScene, hoverVars,
                   isMobile, activeSection, innerWidth, scrollY, layout, phase, listeners,
                   audioVars, renderVars>>

\* the sound calls of scrollToSection(sectionId): if (element) { scrollIntoView;
\* playClickSound() }.  The scrolling it starts arrives as scroll events.
scrollToSection(sectionId) ==
    IF getElementById(sectionId).present THEN <<"click">> ELSE <<>>

\* the menu button of the navigation bar: setShowStats(!showStats)
ToggleMenu == MenuEvent("toggleMenu", ~showStats, <<>>)

\* the close button of the mobile menu, rendered while showStats: setShowStats(false)
CloseMenu ==
    /\ showStats
    /\ MenuEvent("closeMenu", FALSE, <<>>)

\* a link of the navigation bar: scrollToSection(section)
NavClick(section) == MenuEvent("navClick", showStats, scrollToSection(section))

\* a link of the mobile menu: scrollToSection(section), setShowStats(false)
MenuNavigate(section) ==
    /\ showStats
    /\ MenuEvent("menuNavigate", FALSE, scrollToSection(section))

\* Home is unmounted: the commit removes its elements from the document; the
\* cleanups of its effects run after the commit
Unmount ==
    /\ phase = "mounted"
    /\ ~effectPending
    /\ phase' = "detached"
    /\ last' = Started("unmount")
    /\ before' = View
    /\ UNCHANGED <<selectedCategory, currentGalleryIndex, show3DScene, effectPending, threw,
                   soundCalls, failedSounds, trail, hoverVars, isMobile, activeSection,
                   showStats, innerWidth, scrollY, layout, listeners, audioVars, renderVars>>

\* the cleanups of the two listener effects:
\* window.removeEventListener('resize', checkMobile) and ('scroll', handleScroll)
CleanupEffects ==
    /\ phase = "detached"
    /\ phase' = "unmounted"
    /\ listeners' = listeners \ CleanupListeners(instance)
    /\ UNCHANGED <<selectedCategory, currentGalleryIndex, show3DScene, effectPending, threw,
                   soundCalls, failedSounds, last, trail, hoverVars, isMobile,
                   activeSection, showStats, innerWidth, scrollY, layout, before, audioVars, renderVars>>

\* Home is rendered again, as a new instance with the useState initial values,
\* in the window as it is
Remount ==
    /\ phase = "unmounted"
    /\ instance < MaxMounts
    /\ instance' = instance + 1
    /\ phase' = "rendered"
    /\ selectedCategory' = InitialState.selectedCategory
    /\ currentGalleryIndex' = InitialState.currentGalleryIndex
    /\ show3DScene' = InitialState.show3DScene
    /\ isMobile' = InitialState.isMobile
    /\ activeSection' = InitialState.activeSection
    /\ showStats' = InitialState.showStats
    /\ hovered' = Null
    /\ effectPending' = FALSE
    /\ threw' = FALSE
    /\ soundCalls' = <<>>
    /\ failedSounds' = {}
    /\ last' = [op |-> "init", cat |-> Null, idx |-> 0, arg |-> Null, pos |-> 0]
    /\ trail' = <<>>
    /\ before' = [scrollY |-> scrollY, show3DScene |-> InitialState.show3DScene,
                  activeSection |-> InitialState.activeSection,
                  isMobile |-> InitialState.isMobile, showStats |-> InitialState.showStats]
    /\ UNCHANGED <<pointerOver, pending, innerWidth, scrollY, layout, listeners, updates,
                   audioVars>>

NextView ==
    \/ MountEffects
    \/ \E s \in ScrollOffsets(layout) : Scroll(s)
    \/ \E w \in Widths, l \in Layouts : Resize(w, l)
    \/ ToggleMenu
    \/ CloseMenu
    \/ \E section \in SectionIds : NavClick(section)
    \/ \E section \in SectionIds : MenuNavigate(section)
    \/ Unmount
    \/ CleanupEffects

SpecView == Init /\ [][NextView]_vars

\* the life of Home's listeners: mounts, the events of the window, unmounts
NextListen ==
    \/ MountEffects
    \/ \E s \in {0, SceneScrollLimit + 1, layout.hero} : Scroll(s)
    \/ \E w \in Widths, l \in Layouts : Resize(w, l)
    \/ Unmount
    \/ CleanupEffects
    \/ Remount

SpecListen == Init /\ [][NextListen]_vars

\* Home with its selection and the scroll handler: every event that writes
\* selectedCategory or currentGalleryIndex, scrolling to the section
\* boundaries, and the unmount
NextDerive ==
    \/ MountEffects
    \/ \E i \in DOMAIN photos : SelectFrame(i)
    \/ \E c \in galleryCards : SelectCard(c)
    \/ SelectedCategoryEffect
    \/ CloseModal
    \/ \E index \in 0..(Len(selectedCategoryData.images) - 1) : ThumbnailClick(index)
    \/ \E s \in Cumulative(layout) \cup {0} : Scroll(s)
    \/ Unmount
    \/ CleanupEffects

SpecDerive == Init /\ [][NextDerive]_vars

\* the frames the pointer reaches where pointer and selection events are combined
InteractFrames == {i \in DOMAIN photos : photos[i] \in {"Landscapes", "Portraits"}}

\* The interactions that play a sound, together: the pointer over the frames
\* InteractFrames, clicks on them and on their cards, the effect, the modal's
\* navigation and thumbnails
NextInteract ==
    \/ MountEffects
    \/ \E to \in InteractFrames \cup {0} : PointerMove(to)
    \/ DeliverPointerEvent
    \/ \E i \in InteractFrames : SelectFrame(i)
    \/ \E i \in InteractFrames : SelectCard(photos[i])
    \/ SelectedCategoryEffect
    \/ CloseModal
    \/ nextImage
    \/ prevImage
    \/ \E index \in 0..(Len(selectedCategoryData.images) - 1) : ThumbnailClick(index)

\* Home in a window of one width and one layout, which these events do not change
InitInteract ==
    /\ Init
    /\ innerWidth = MobileBreakpoint + 1
    /\ layout = CHOOSE l \in Layouts : l.hero > SceneScrollLimit

SpecInteract == InitInteract /\ [][NextInteract]_vars

\* Every kind of event of the page, in one layout: the pointer enters the first
\* frame, selection, the modal, scrolling, resizing, the menu and the links
NextPage ==
    \/ MountEffects
    \/ PointerMove(1)
    \/ DeliverPointerEvent
    \/ SelectFrame(1)
    \/ SelectCard(photos[1])
    \/ SelectedCategoryEffect
    \/ CloseModal
    \/ nextImage
    \/ prevImage
    \/ \E index \in 0..(Len(selectedCategoryData.images) - 1) : ThumbnailClick(index)
    \/ \E s \in {0, layout.hero} : Scroll(s)
    \/ \E w \in {MobileBreakpoint - 1, MobileBreakpoint + 1} : Resize(w, layout)
    \/ ToggleMenu
    \/ CloseMenu
    \/ \E section \in SectionIds : NavClick(section)
    \/ \E section \in SectionIds : MenuNavigate(section)

SpecPage == InitInteract /\ [][NextPage]_vars

(***************************************************************************)
(* The audio graph: oscillators, the audio clock, the ambient timer        *)
(*                                                                         *)
(* Every call builds its own AudioContext and oscillator; nothing is       *)
(* shared between calls.  A scheduled stop is carried out by the audio     *)
(* clock, the delayed stop of the ambient sound by the timer.  Neither the *)
(* hook nor Home keeps a timer id, and no cleanup clears a timer.  After   *)
(* Home is removed the contexts it left behind may be disposed of.         *)
(***************************************************************************)

\* A caller calls the sound operation `kind`, and step failAt raises
CallSound(kind, failAt) ==
    LET r == RunSound(kind, failAt)
        id == Len(oscillators) + 1
    IN /\ phase = "mounted"
       /\ Len(oscillators) < MaxOscillators
       /\ oscillators' =
             IF r.started
                 THEN Append(oscillators,
                             [kind |-> kind, state |-> "running", stopAfter |-> r.stopAfter])
                 ELSE oscillators
       /\ timers' =
             IF r.timer > 0
                 THEN Append(timers, [osc |-> id, delay |-> r.timer, state |-> "pending"])
                 ELSE timers
       /\ lastCall' = [kind |-> kind, failed |-> failAt # "none", threw |-> r.threw,
                       notice |-> r.notice, started |-> r.started,
                       afterFailure |-> lastCall.failed]
       /\ UNCHANGED <<selectedCategory, currentGalleryIndex, show3DScene, effectPending,
                      threw, soundCalls, failedSounds, last, trail, hoverVars, viewVars, renderVars,
                      lastTimer>>

\* the audio clock reaches the time given to oscillator.stop(when)
AudioClockStop(i) ==
    /\ i \in DOMAIN oscillators
    /\ oscillators[i].state = "running"
    /\ oscillators[i].stopAfter > 0
    /\ oscillators' = [oscillators EXCEPT ![i].state = "stopped"]
    /\ UNCHANGED <<selectedCategory, currentGalleryIndex, show3DScene, effectPending,
                   threw, soundCalls, failedSounds, last, trail, hoverVars, viewVars, renderVars,
                   timers, lastCall, lastTimer>>

\* the timer t set by playAmbientSound expires and its callback runs
TimerFire(t) ==
    /\ t \in DOMAIN timers
    /\ timers[t].state = "pending"
    /\ \E raises \in BOOLEAN :
          LET o == timers[t].osc
              r == TimerCallback(oscillators[o].state, raises)
          IN /\ oscillators' = [oscillators EXCEPT ![o].state = r.state]
             /\ lastTimer' = [osc |-> o, stopError |-> r.stopError, threw |-> r.threw]
    /\ timers' = [timers EXCEPT ![t].state = "fired"]
    /\ UNCHANGED <<selectedCategory, currentGalleryIndex, show3DScene, effectPending,
                   threw, soundCalls, failedSounds, last, trail, hoverVars, viewVars, renderVars,
                   lastCall>>

\* the context of oscillator i is detached or disposed of once Home is gone
ContextDetached(i) ==
    /\ phase \in {"detached", "unmounted"}
    /\ i \in DOMAIN oscillators
    /\ oscillators[i].state = "running"
    /\ oscillators' = [oscillators EXCEPT ![i].state = "disposed"]
    /\ UNCHANGED <<selectedCategory, currentGalleryIndex, show3DScene, effectPending,
                   threw, soundCalls, failedSounds, last, trail, hoverVars, viewVars, renderVars,
                   timers, lastCall, lastTimer>>

NextSound ==
    \/ MountEffects
    \/ \E kind \in SoundKinds : \E failAt \in PlatformFailures(kind) : CallSound(kind, failAt)
    \/ \E i \in 1..MaxOscillators : AudioClockStop(i)
    \/ \E t \in 1..MaxOscillators : TimerFire(t)
    \/ \E i \in 1..MaxOscillators : ContextDetached(i)
    \/ Unmount
    \/ CleanupEffects

SpecSound == Init /\ [][NextSound]_vars

\* the audio clock advances and expired timers run
SpecSoundFair ==
    /\ SpecSound
    /\ \A i \in 1..MaxOscillators : WF_vars(AudioClockStop(i))
    /\ \A t \in 1..MaxOscillators : WF_vars(TimerFire(t))

(***************************************************************************)
(* Properties                                                              *)
(***************************************************************************)

Selects == {"selectFrame", "selectCard"}

\* the number of images of the selected category
ImageCount == Len(selectedCategoryData.images)

\* the number of playSuccessSound calls of the last event and its effect
SuccessCount == Cardinality({j \in DOMAIN soundCalls : soundCalls[j] = "success"})

\* the last k entries of trail all are calls of op
RunOf(op, k) ==
    /\ Len(trail) >= k
    /\ \A j \in (Len(trail) - k + 1)..Len(trail) : trail[j].op = op

\* C1: in every reachable state in which a category is selected, the gallery
\* index is an index of that category's images (0 <= index < image count),
\* also in the commit between a change of selectedCategory and the effect.
IndexInBounds ==
    selectedCategory # Null =>
        /\ selectedCategoryData.present
        /\ 0 <= currentGalleryIndex
        /\ currentGalleryIndex < ImageCount

\* a category has just replaced another while the index was at the last image,
\* and the effect has not run yet
IndexInBounds_Witness ==
    /\ effectPending
    /\ selectedCategory # Null
    /\ last.op \in Selects
    /\ currentGalleryIndex = ImageCount - 1
    /\ currentGalleryIndex > 0

\* C2 as stated: after any select(C) and its effects, the index is 0, also when
\* C was the selected category already.
SelectResetsIndex ==
    (last.op \in Selects /\ ~effectPending) => currentGalleryIndex = 0

\* C2 amended: after a select(C) that changed selectedCategory (C was not the
\* selected category) and the effect it triggers, the index is 0.
SelectOfOtherResetsIndex ==
    (last.op \in Selects /\ last.cat # selectedCategory /\ ~effectPending)
        => currentGalleryIndex = 0

\* another category was selected from a non-zero index and the effect has run
SelectOfOtherResetsIndex_Witness ==
    /\ last.op \in Selects
    /\ last.cat # selectedCategory
    /\ last.cat # Null
    /\ last.idx = 3
    /\ ~effectPending
    /\ currentGalleryIndex = 0

\* C3: with a category of N images selected, N calls of nextImage in a row, and
\* N calls of prevImage in a row, return the index to where the run started, and
\* a nextImage followed by a prevImage (or the reverse) returns it as well.
WrapAround ==
    selectedCategoryData.present =>
        /\ RunOf("next", ImageCount) => currentGalleryIndex = trail[Len(trail) - ImageCount + 1].from
        /\ RunOf("prev", ImageCount) => currentGalleryIndex = trail[Len(trail) - ImageCount + 1].from
        /\ (Len(trail) >= 2 /\ trail[Len(trail) - 1].op # trail[Len(trail)].op)
              => currentGalleryIndex = trail[Len(trail) - 1].from

\* N nextImage calls were made from index 3 and the index is 3 again
WrapAround_Witness ==
    /\ selectedCategoryData.present
    /\ RunOf("next", ImageCount)
    /\ trail[Len(trail) - ImageCount + 1].from = 3
    /\ currentGalleryIndex = 3

\* C4: with a category of N images selected and the index at i, nextImage gives
\* (i + 1) mod N and prevImage gives (i - 1 + N) mod N, never negative;
\* prevImage from 0 gives N - 1 = 4 and nextImage from N - 1 gives 0.
StepIsModular ==
    (selectedCategoryData.present /\ last.cat = selectedCategory) =>
        /\ last.op = "next" => currentGalleryIndex = (last.idx + 1) % ImageCount
        /\ last.op = "prev" =>
              /\ currentGalleryIndex = (last.idx - 1 + ImageCount) % ImageCount
              /\ currentGalleryIndex >= 0
        /\ (last.op = "prev" /\ last.idx = 0) =>
              /\ currentGalleryIndex = ImageCount - 1
              /\ currentGalleryIndex = 4
        /\ (last.op = "next" /\ last.idx = ImageCount - 1) => currentGalleryIndex = 0

\* prevImage was called at index 0 and the index is 4
StepIsModular_Witness ==
    /\ selectedCategoryData.present
    /\ last.op = "prev"
    /\ last.cat = selectedCategory
    /\ last.idx = 0
    /\ currentGalleryIndex = 4

\* C5: called while no category is selected, nextImage and prevImage raise no
\* error and leave currentGalleryIndex and selectedCategory as they were.
GuardedWithoutCategory ==
    (last.op \in {"next", "prev"} /\ last.cat = Null) =>
        /\ ~threw
        /\ currentGalleryIndex = last.idx
        /\ selectedCategory = Null

\* prevImage was called with the modal closed and the index left at 3
GuardedWithoutCategory_Witness ==
    /\ last.op = "prev"
    /\ last.cat = Null
    /\ last.idx = 3
    /\ currentGalleryIndex = 3

\* C6: after a selection made while the modal was closed, the modal is never
\* visible with an index other than 0 until the user navigates.
ModalOpensAtFirstImage ==
    (ModalVisible /\ last.op \in Selects /\ last.cat = Null) => currentGalleryIndex = 0

ModalIffSelected ==
    /\ ModalVisible <=> selectedCategory # Null
    /\ \A i \in DOMAIN photos : photos[i] \in DOMAIN galleryData
    /\ \A c \in galleryCards : c \in DOMAIN galleryData
    /\ last.op = "close" => selectedCategory = Null

\* a frame click has just opened the modal
ModalIffSelected_Witness ==
    /\ last.op = "selectFrame"
    /\ last.cat = Null
    /\ selectedCategory = photos[5]
    /\ ModalVisible

\* C9: at most one of the five frames is highlighted, the titles of the frames
\* being pairwise distinct.
AtMostOneHighlighted ==
    /\ Cardinality({i \in DOMAIN photos : Highlighted(i)}) <= 1
    /\ \A i, j \in DOMAIN photos : photos[i] = photos[j] => i = j

\* the pointer rests over the second frame it entered, which is the highlighted one
AtMostOneHighlighted_Witness ==
    /\ pending = <<>>
    /\ pointerOver = 2
    /\ {i \in DOMAIN photos : Highlighted(i)} = {2}

\* C10: whenever the pointer rests over a frame and no pointer event is pending,
\* that frame is the hovered one: a pointer-out of the frame left, delivered
\* after the pointer-over of the frame entered, does not clear the hover.
EnterBeatsStaleLeave ==
    (pending = <<>> /\ pointerOver # 0) => hovered = photos[pointerOver]

\* the section the scroll offset s falls in, for section heights l: the first
\* of hero, gallery, about whose cumulative height exceeds s, else contact
FirstExceeding(s, l) ==
    IF l.hero > s THEN "hero"
    ELSE IF l.hero + l.gallery > s THEN "gallery"
    ELSE IF l.hero + l.gallery + l.about > s THEN "about"
    ELSE "contact"

\* C11: after every handled scroll event show3DScene holds iff the scroll
\* offset is <= 100, whatever was scrolled to before.
SceneFollowsScroll ==
    last.op = "scroll" => (show3DScene <=> scrollY <= 100)

\* the page was at offset 150 with the scene hidden, was scrolled back to 50 and
\* shows the scene again
SceneFollowsScroll_Witness ==
    /\ last.op = "scroll"
    /\ before.scrollY = 150
    /\ ~before.show3DScene
    /\ scrollY = 50
    /\ show3DScene

\* C12: after every handled scroll event activeSection is the first of hero,
\* gallery, about whose cumulative height strictly exceeds the offset, and
\* contact when none does; an offset equal to a cumulative height selects the
\* following section.
ActiveSectionFollowsScroll ==
    last.op = "scroll" =>
        /\ activeSection = FirstExceeding(scrollY, layout)
        /\ scrollY > layout.hero + layout.gallery + layout.about => activeSection = "contact"
        /\ scrollY = layout.hero => activeSection = "gallery"
        /\ scrollY = layout.hero + layout.gallery => activeSection = "about"
        /\ scrollY = layout.hero + layout.gallery + layout.about => activeSection = "contact"

\* the page was scrolled to the end of the gallery section exactly: about is active
ActiveSectionFollowsScroll_Witness ==
    /\ last.op = "scroll"
    /\ scrollY = layout.hero + layout.gallery
    /\ before.activeSection = "contact"
    /\ activeSection = "about"

\* C13: while Home is mounted (the mount effect has run, the cleanup has not),
\* isMobile holds iff the window is narrower than 768, after every resize.
MobileIffNarrow ==
    phase = "mounted" => (isMobile <=> innerWidth < 768)

\* a mobile page was widened to exactly 768 and is not mobile any more
MobileIffNarrow_Witness ==
    /\ phase = "mounted"
    /\ last.op = "resize"
    /\ before.isMobile
    /\ innerWidth = 768
    /\ ~isMobile

\* C14: until the first user event is handled, selectedCategory is null, the
\* modal is closed, the 3D scene is shown, activeSection is "hero", the index is
\* 0 and the mobile menu is hidden.
InitialLoad ==
    last.op = "init" =>
        /\ selectedCategory = Null
        /\ ~ModalVisible
        /\ show3DScene
        /\ activeSection = "hero"
        /\ currentGalleryIndex = 0
        /\ ~showStats

\* the page has loaded in a narrow window, its mount effects have run and no
\* event has been handled
InitialLoad_Witness ==
    /\ last.op = "init"
    /\ phase = "mounted"
    /\ isMobile
    /\ show3DScene
    /\ activeSection = "hero"

\* C17 as stated: once a change of selectedCategory (to a category or to null)
\* has been processed, the index is 0 until the next navigation.
ChangeResetsIndex ==
    (last.op \in Selects \cup {"close"} /\ last.cat # selectedCategory /\ ~effectPending)
        => currentGalleryIndex = 0

\* the offsets at which the scroll handler could run
AllOffsets == UNION {ScrollOffsets(l) : l \in Layouts}

\* C20: the scroll handler raises no error: whenever it is registered, it reads
\* heroSection! and gallerySection! only where these elements exist, at every
\* offset; and whenever a category is selected its record exists and the
\* current image is one of its images.
DerivationDefined ==
    /\ last.op \in {"scroll", "scrollDetached"} => ~threw
    /\ ListenersFor("scroll") # {} =>
          \A s \in AllOffsets :
              ~SectionAt(s, getElementById("hero"), getElementById("gallery"),
                         getElementById("about"), getElementById("contact")).threw
    /\ selectedCategory # Null =>
          /\ selectedCategory \in DOMAIN galleryData
          /\ currentImage \in {galleryData[selectedCategory].images[k] :
                                  k \in DOMAIN galleryData[selectedCategory].images}

\* with a category selected and its last image shown, the page was scrolled past
\* the hero section, where heroSection! is read
DerivationDefined_Witness ==
    /\ last.op = "scroll"
    /\ scrollY = layout.hero + layout.gallery
    /\ activeSection = "about"
    /\ selectedCategory # Null
    /\ currentGalleryIndex = 4

\* C15: none of the four sound operations throws to its caller: whichever step
\* of the try block raises, the caller sees a normal return and the catch has
\* logged its notice; and a call that follows a failed call and meets no
\* failure itself starts its oscillator as if the failure had not happened.
SoundNeverThrows ==
    /\ \A kind \in SoundKinds : \A failAt \in AnyFailure(kind) :
          /\ ~RunSound(kind, failAt).threw
          /\ RunSound(kind, failAt).notice <=> failAt # "none"
    /\ ~lastCall.threw
    /\ lastCall.failed => lastCall.notice
    /\ (lastCall.afterFailure /\ ~lastCall.failed) =>
          /\ lastCall.started
          /\ ~lastCall.notice
          /\ oscillators[Len(oscillators)].kind = lastCall.kind
          /\ oscillators[Len(oscillators)].stopAfter = StopDelay(lastCall.kind)

\* a call failed, and the call after it went through
SoundNeverThrows_Witness ==
    /\ lastCall.afterFailure
    /\ ~lastCall.failed
    /\ lastCall.started
    /\ Len(oscillators) = 1

\* the timers set for oscillator i
TimersOf(i) == {t \in DOMAIN timers : timers[t].osc = i}

Running(i) == i \in DOMAIN oscillators /\ oscillators[i].state = "running"

\* C18: every oscillator that is started has its stop scheduled (100, 50 and
\* 300 ms after the start for hover, click and success, the 2000 ms timer for
\* ambient), and with a fair audio clock and fair timers no started oscillator
\* keeps running forever.
StartedIsStopped ==
    /\ [](\A i \in DOMAIN oscillators :
            /\ oscillators[i].kind = "hover" => oscillators[i].stopAfter = 100
            /\ oscillators[i].kind = "click" => oscillators[i].stopAfter = 50
            /\ oscillators[i].kind = "success" => oscillators[i].stopAfter = 300
            /\ oscillators[i].kind = "ambient" =>
                  \E t \in TimersOf(i) : timers[t].delay = 2000
            /\ Running(i) =>
                  \/ oscillators[i].stopAfter > 0
                  \/ \E t \in TimersOf(i) : timers[t].state = "pending")
    /\ \A i \in 1..MaxOscillators : Running(i) ~> ~Running(i)

\* a success sound stopped by the audio clock and an ambient sound stopped by
\* its timer
StartedIsStopped_Witness ==
    /\ \E i \in DOMAIN oscillators :
          oscillators[i].kind = "success" /\ oscillators[i].state = "stopped"
    /\ \E i \in DOMAIN oscillators :
          oscillators[i].kind = "ambient" /\ oscillators[i].state = "stopped"

\* C19: the delayed stop of the ambient sound: every ambient oscillator that
\* was started has exactly one timer, of 2000 ms, which stays pending until it
\* fires, whatever the phase of Home; a timer exists only for an ambient
\* oscillator that was started; the callback never throws, whether or not
\* stopping raised.
AmbientStopIsGuarded ==
    /\ \A i \in DOMAIN oscillators :
          Cardinality(TimersOf(i)) = IF oscillators[i].kind = "ambient" THEN 1 ELSE 0
    /\ \A t \in DOMAIN timers :
          /\ timers[t].osc \in DOMAIN oscillators
          /\ timers[t].delay = 2000
          /\ timers[t].state \in {"pending", "fired"}
          /\ (timers[t].state = "pending" /\ phase = "mounted")
                => oscillators[timers[t].osc].state = "running"
    /\ (lastCall.kind = "ambient" /\ ~lastCall.started) =>
          Len(timers) = Cardinality({i \in DOMAIN oscillators :
                                       oscillators[i].kind = "ambient"})
    /\ ~lastTimer.threw

\* Home was unmounted before the timer fired; stopping the oscillator of a
\* disposed context raised in the callback
AmbientStopIsGuarded_Witness ==
    /\ phase = "unmounted"
    /\ lastTimer.osc \in DOMAIN oscillators
    /\ lastTimer.stopError
    /\ timers[1].state = "fired"
    /\ oscillators[lastTimer.osc].state = "disposed"

\* the events that call a sound operation
SoundEvents == {"pointerOver", "selectFrame", "selectCard", "next", "prev", "thumbnail"}

\* the UI state that the last event and the effect that followed it lead to,
\* from the state the event started in, when every sound succeeds
AfterLastEvent ==
    LET n == Len(CategoryData(last.cat).images)
        selected == IF last.op \in Selects THEN last.arg ELSE last.cat
        effectRan == last.op \in Selects /\ last.arg # last.cat /\ ~effectPending
    IN [selectedCategory |-> selected,
        currentGalleryIndex |->
            IF effectRan THEN 0
            ELSE IF last.op = "thumbnail" THEN last.pos
            ELSE IF last.op = "next" /\ Truthy(last.cat) THEN (last.idx + 1) % n
            ELSE IF last.op = "prev" /\ Truthy(last.cat) THEN (last.idx - 1 + n) % n
            ELSE last.idx,
        hovered |-> IF last.op = "pointerOver" THEN last.arg ELSE hovered]

\* C16: sound never blocks or fails the interaction: after every event that
\* plays a sound (pointer-enter of a frame, click on a frame or a card,
\* nextImage, prevImage, thumbnail click) and after the selection effect, the
\* handler has raised nothing and hovered, selectedCategory and
\* currentGalleryIndex are what the event alone determines, whether its sound
\* operations failed or not.
SoundNeverFailsInteraction ==
    last.op \in SoundEvents =>
        /\ ~threw
        /\ selectedCategory = AfterLastEvent.selectedCategory
        /\ currentGalleryIndex = AfterLastEvent.currentGalleryIndex
        /\ hovered = AfterLastEvent.hovered
        /\ failedSounds \subseteq {soundCalls[j] : j \in DOMAIN soundCalls}

\* a frame was entered and its hover sound failed; then it was clicked, and
\* both the click sound and the success sound of the effect failed
SoundNeverFailsInteraction_Witness ==
    /\ last.op = "selectFrame"
    /\ ~effectPending
    /\ failedSounds = {"click", "success"}
    /\ hovered = selectedCategory
    /\ last.idx # 0
    /\ currentGalleryIndex = 0

\* C21: the resize listener and the scroll listener are added once by the mount
\* effects and removed by the cleanups, with the functions that were added: the
\* window never has more than one listener of a kind; while an instance is
\* mounted, and until its cleanups run, the listeners are the two of that
\* instance; before the mount effects and after the cleanups there is none;
\* and from the unmount on no resize or scroll event changes isMobile,
\* show3DScene or activeSection.
ListenersScoped ==
    /\ \A type \in {"resize", "scroll"} : Cardinality(ListenersFor(type)) <= 1
    /\ phase \in {"mounted", "detached"} =>
          /\ listeners = MountListeners(instance)
          /\ \A type \in {"resize", "scroll"} : Cardinality(ListenersFor(type)) = 1
    /\ phase \in {"rendered", "unmounted"} => listeners = {}
    /\ phase \in {"detached", "unmounted"} =>
          /\ isMobile = before.isMobile
          /\ show3DScene = before.show3DScene
          /\ activeSection = before.activeSection

\* the second instance was unmounted with the scene shown on a mobile window;
\* then the window was scrolled past the limit and widened, and nothing followed
ListenersScoped_Witness ==
    /\ instance = 2
    /\ phase = "unmounted"
    /\ listeners = {}
    /\ scrollY > SceneScrollLimit
    /\ show3DScene
    /\ isMobile
    /\ innerWidth > MobileBreakpoint

\* a step in which the scroll handler ran for a scroll event of the window
ScrollHandled ==
    /\ scrollY' # scrollY
    /\ ListenersFor("scroll") # {}
    /\ phase = "mounted"
    /\ last'.op = "scroll"

\* C22: show3DScene and activeSection are written by the scroll handler only:
\* they start as true and "hero", and a step that changes either of them is a
\* step of the scroll handler; selection, closing, nextImage, prevImage,
\* thumbnails, resize, hover, the menu, scrollToSection and the mount effects
\* leave both as they are, so they keep their initial values until the first
\* scroll event is handled, wherever the window is scrolled to.
OnlyScrollWritesScene ==
    /\ show3DScene = TRUE
    /\ activeSection = "hero"
    /\ [][(show3DScene' # show3DScene \/ activeSection' # activeSection)
            => ScrollHandled]_vars

\* the window was scrolled past the hero section before Home was mounted; since
\* the mount a frame was hovered, a category selected and a link clicked, and the
\* scene is still shown and the active section is still hero
OnlyScrollWritesScene_Witness ==
    /\ phase = "mounted"
    /\ scrollY >= layout.hero
    /\ show3DScene
    /\ activeSection = "hero"
    /\ last.op = "navClick"
    /\ soundCalls = <<"click">>
    /\ selectedCategory # Null
    /\ hovered # Null
    /\ isMobile

\* the number of calls of op in the batch just rendered
CallsOf(op) == Cardinality({j \in DOMAIN trail : trail[j].op = op})

\* C23: no index update is lost when navigation calls are handled back to back:
\* with N images and the index at i, the render that follows k nextImage calls
\* shows (i + k) mod N, the one that follows k prevImage calls (i - k) mod N,
\* and a mixed batch the index moved by the calls of each kind.
NoLostUpdate ==
    (last.op = "render" /\ selectedCategoryData.present) =>
        /\ RunOf("next", last.pos) /\ Len(trail) = last.pos
              => currentGalleryIndex = (last.idx + last.pos) % ImageCount
        /\ RunOf("prev", last.pos) /\ Len(trail) = last.pos
              => currentGalleryIndex = (last.idx - last.pos) % ImageCount
        /\ currentGalleryIndex =
              (last.idx + CallsOf("next") - CallsOf("prev")) % ImageCount

\* three prevImage calls at index 1 of five images were rendered together
NoLostUpdate_Witness ==
    /\ last.op = "render"
    /\ last.pos = 3
    /\ RunOf("prev", 3)
    /\ last.idx = 1
    /\ currentGalleryIndex = 3
====
